---- MODULE Spec2Model ----
(***************************************************************************)
(* A model of tophatbot (src/tophatbot/bot.py): the TopHatBot client, its  *)
(* session handshake, the question loader and answer resolver, and the     *)
(* Psych210Bot chapter filter and batch run.                               *)
(*                                                                         *)
(* Python values are modelled as follows.                                  *)
(*   str          a sequence of one-character strings                      *)
(*   dict         a sequence of <<key, value>> pairs with distinct keys,   *)
(*                in insertion order                                       *)
(*   JSON value   a record [t |-> tag, v |-> sequence]: a "list" of str, a *)
(*                "map" (dict of str to str), "null", or "missing" (the    *)
(*                key is not in the object)                                *)
(*   exception    its class name, "none" when nothing was raised           *)
(***************************************************************************)
EXTENDS Integers, Sequences, FiniteSets, TLC

\* ------------------------------------------------------------------ bounds

\* A question-data response lists at most MaxResp question objects.
MaxResp == 2

\* ----------------------------------------------------------------- strings

\* str.startswith(prefix)
StartsWith(s, prefix) ==
    /\ Len(prefix) <= Len(s)
    /\ SubSeq(s, 1, Len(prefix)) = prefix

\* sub in s, for two str
Contains(s, sub) ==
    \E i \in 1..(Len(s) - Len(sub) + 1) : SubSeq(s, i, i + Len(sub) - 1) = sub

\* The index of the first occurrence of sep in s, 0 when there is none.
FindFirst(s, sep) ==
    LET hits == {i \in 1..(Len(s) - Len(sep) + 1) :
                    SubSeq(s, i, i + Len(sep) - 1) = sep}
    IN  IF hits = {} THEN 0 ELSE CHOOSE i \in hits : \A j \in hits : i <= j

\* str.split(sep) for a non-empty sep: the parts between the occurrences of
\* sep, scanned left to right without overlap; a str without sep is one part.
RECURSIVE Split(_, _)
Split(s, sep) ==
    LET i == FindFirst(s, sep)
    IN  IF i = 0
        THEN <<s>>
        ELSE <<SubSeq(s, 1, i - 1)>> \o Split(SubSeq(s, i + Len(sep), Len(s)), sep)

\* [part for s in strs for part in s.split(sep)]
RECURSIVE SplitAll(_, _)
SplitAll(strs, sep) ==
    IF strs = <<>> THEN <<>>
    ELSE Split(Head(strs), sep) \o SplitAll(Tail(strs), sep)

\* The code point order of the characters that occur in dict keys.
Ord(c) ==
    CASE c = " " -> 32
      [] c = "0" -> 48
      [] c = "1" -> 49
      [] c = "2" -> 50
      [] c = "3" -> 51
      [] c = "a" -> 97
      [] c = "b" -> 98
      [] OTHER -> 127

\* a < b for str: lexicographic by code point, a proper prefix is smaller.
RECURSIVE StrLess(_, _)
StrLess(a, b) ==
    IF b = <<>> THEN FALSE
    ELSE IF a = <<>> THEN TRUE
    ELSE IF Head(a) = Head(b) THEN StrLess(Tail(a), Tail(b))
    ELSE Ord(Head(a)) < Ord(Head(b))

\* str(i) for a natural number i, in decimal.
DigitChar(d) ==
    CASE d = 0 -> "0" [] d = 1 -> "1" [] d = 2 -> "2" [] d = 3 -> "3"
      [] d = 4 -> "4" [] d = 5 -> "5" [] d = 6 -> "6" [] d = 7 -> "7"
      [] d = 8 -> "8" [] OTHER -> "9"

RECURSIVE Str(_)
Str(i) ==
    IF i < 10 THEN <<DigitChar(i)>>
    ELSE Str(i \div 10) \o <<DigitChar(i % 10)>>

\* ------------------------------------------------------------------- dicts

Keys(d) == [i \in 1..Len(d) |-> d[i][1]]

KeySet(d) == {d[i][1] : i \in 1..Len(d)}

\* key in d
Has(d, k) == k \in KeySet(d)

\* d[key], for a key of d
Get(d, k) == d[CHOOSE i \in 1..Len(d) : d[i][1] = k][2]

\* d[key] = value: a present key keeps its position and takes the new value,
\* a new key is appended.
Put(d, k, val) ==
    IF Has(d, k)
    THEN [i \in 1..Len(d) |-> IF d[i][1] = k THEN <<k, val>> ELSE d[i]]
    ELSE Append(d, <<k, val>>)

\* d.update(e)
RECURSIVE Update(_, _)
Update(d, e) ==
    IF e = <<>> THEN d
    ELSE Update(Put(d, Head(e)[1], Head(e)[2]), Tail(e))

\* sorted(d.items()): the items by ascending key (keys are distinct, so the
\* values never decide).
RECURSIVE SortedItems(_)
SortedItems(d) ==
    IF d = <<>> THEN <<>>
    ELSE LET m == CHOOSE i \in 1..Len(d) :
                      \A j \in 1..Len(d) : j = i \/ StrLess(d[i][1], d[j][1])
             rest == [j \in 1..(Len(d) - 1) |-> IF j < m THEN d[j] ELSE d[j + 1]]
         IN  <<d[m]>> \o SortedItems(rest)

Values(d) == [i \in 1..Len(d) |-> d[i][2]]

\* ------------------------------------------------------------- JSON values

JList(items) == [t |-> "list", v |-> items]
JMap(items) == [t |-> "map", v |-> items]
JNull == [t |-> "null", v |-> <<>>]
JMissing == [t |-> "missing", v |-> <<>>]

\* The outcome of evaluating an expression: a value, or an exception raised.
Value(x) == [raised |-> "none", value |-> x]
Raise(exc) == [raised |-> exc, value |-> JNull]

\* question[key] for a key whose value is a JSON value
Subscript(x) == IF x.t = "missing" THEN Raise("KeyError") ELSE Value(x)

\* The outcomes of random.choice(x): any element of a non-empty list.
RandomChoice(x) ==
    CASE x.t = "missing" -> {Raise("KeyError")}
      [] x.t = "null" -> {Raise("TypeError")}
      [] x.t = "list" ->
            IF x.v = <<>> THEN {Raise("IndexError")}
            ELSE {Value(x.v[i]) : i \in 1..Len(x.v)}
      [] OTHER ->
            \* a dict is subscripted with an integer position
            IF x.v = <<>> THEN {Raise("IndexError")} ELSE {Raise("KeyError")}

\* [part for s in x for part in s.split(sep)]: a dict iterates its keys.
SplitParts(x, sep) ==
    CASE x.t = "missing" -> Raise("KeyError")
      [] x.t = "null" -> Raise("TypeError")
      [] x.t = "list" -> Value(JList(SplitAll(x.v, sep)))
      [] OTHER -> Value(JList(SplitAll(Keys(x.v), sep)))

\* The values of the dict in the order of the response, unsorted.
SortedValuesUnsorted(x) ==
    CASE x.t = "missing" -> Raise("KeyError")
      [] x.t = "map" -> Value(JList(Values(x.v)))
      [] OTHER -> Raise("AttributeError")

\* [v for k, v in sorted(x.items())]
SortedValues(x) ==
    CASE x.t = "missing" -> Raise("KeyError")
      [] x.t = "map" -> Value(JList(Values(SortedItems(x.v))))
      [] OTHER -> Raise("AttributeError")

\* --------------------------------------------------- answer derivation

\* The "type" of a question object that has no "type" key.
NoType == "<missing>"

\* The types load_question_data knows.
KnownTypes == {"match", "sort", "wa", "na", "fitbq", "mc"}

MatchDelimiter == <<"|", ",", ",", "|", " ">>
SortDelimiter == <<",", " ">>

\* [x] for the outcome x of an expression
Singleton(o) == IF o.raised = "none" THEN Value(JList(<<o.value>>)) ELSE o

\* The dispatch with the type tested first and has_correct_answer last.
BranchTypeFirst(q) ==
    IF q.type \in KnownTypes THEN q.type
    ELSE IF q.has_correct_answer = "false" THEN "random"
    ELSE "other"

\* The branch of load_question_data's dispatch that a question object takes:
\* "random" when has_correct_answer is False, else its type's, else "other".
Branch(q) ==
    IF q.has_correct_answer = "false" THEN "random"
    ELSE IF q.type \in KnownTypes THEN q.type
    ELSE "other"

\* The outcomes of deriving the answer of question object q (the if/elif
\* chain): each is [raised, value, warned], warned being the warnings issued.
DeriveAnswer(q) ==
    LET b == Branch(q)
        quiet(o) == [raised |-> o.raised, value |-> o.value, warned |-> <<>>]
    IN  IF q.has_correct_answer = "missing"
        THEN {quiet(Raise("KeyError"))}
        ELSE IF b = "random"
        THEN {quiet(Singleton(o)) : o \in RandomChoice(q.choices)}
        ELSE IF q.type = NoType
        THEN {quiet(Raise("KeyError"))}
        ELSE CASE b = "match" -> {quiet(SplitParts(q.correct_answers, MatchDelimiter))}
               [] b = "sort" -> {quiet(SplitParts(q.correct_answers, SortDelimiter))}
               [] b \in {"wa", "na"} ->
                     {quiet(Singleton(o)) : o \in RandomChoice(q.correct_answers)}
               [] b = "fitbq" -> {quiet(SortedValues(q.correct_answers))}
               [] b = "mc" -> {quiet(Subscript(q.correct_answers))}
               [] OTHER ->
                     LET o == Subscript(q.correct_answers)
                     IN  {[raised |-> o.raised, value |-> o.value,
                           warned |-> <<q.type>>]}

\* The entry stored for question object q with the derived answer.
Entry(q, answer) ==
    [question |-> q.question,
     answer |-> answer,
     type |-> q.type,
     has_correct_answer |-> q.has_correct_answer]

\* The loop without its check: every question object is derived anew.
AlreadyLoadedNever(qs, id) == FALSE

\* "Skip questions we've already loaded"
AlreadyLoaded(qs, id) == Has(qs, id)

\* The loop of load_question_data over the rest r of the response, with the
\* accumulated mapping qs, the local dict data and the warnings so far: the
\* set of outcomes [raised, data, warned].
RECURSIVE ProcessQuestions(_, _, _, _)
ProcessQuestions(qs, r, data, warned) ==
    IF r = <<>>
    THEN {[raised |-> "none", data |-> data, warned |-> warned]}
    ELSE LET q == Head(r)
         IN  IF AlreadyLoaded(qs, q.id)
             THEN ProcessQuestions(qs, Tail(r), data, warned)
             ELSE UNION {
                 IF o.raised # "none"
                 THEN {[raised |-> o.raised, data |-> data,
                        warned |-> warned \o o.warned]}
                 ELSE IF q.type = NoType
                 THEN {[raised |-> "KeyError", data |-> data,
                        warned |-> warned \o o.warned]}
                 ELSE ProcessQuestions(qs, Tail(r),
                          Put(data, q.id, Entry(q, o.value)),
                          warned \o o.warned)
                 : o \in DeriveAnswer(q)}

\* The loop writing into self._questions as it goes: what was derived before
\* an exception stays.
CommitEager(qs, out) == Update(qs, out.data)

\* self._questions = data instead of update: what was loaded before is lost.
CommitReplace(qs, out) == IF out.raised = "none" THEN out.data ELSE qs

\* self._questions.update(data), reached only when the loop raised nothing.
Commit(qs, out) == IF out.raised = "none" THEN Update(qs, out.data) ELSE qs

\* ------------------------------------------------------ the remote platform

\* str values that occur in question objects
sA == <<"A">>
sB == <<"B">>

\* A question object of a question-data response.
Question(id, text, type, hca, choices, correct) ==
    [id |-> id, question |-> text, type |-> type, has_correct_answer |-> hca,
     choices |-> choices, correct_answers |-> correct]

\* The question objects the platform serves for question id: a multiple
\* choice question with a correct answer, a poll without one, and a written
\* answer question whose list of correct answers is empty.
QuizMc(id) == Question(id, <<"quiz">>, "mc", "true", JList(<<sA, sB>>), JList(<<sB>>))
Poll(id) == Question(id, <<"poll">>, "mc", "false", JList(<<sA, sB>>), JList(<<>>))
Broken(id) == Question(id, <<"broken">>, "wa", "true", JList(<<>>), JList(<<>>))

\* The ids of the questions the platform serves.
QuestionIds == {1, 2}

QuestionObjects == UNION {{QuizMc(id), Poll(id), Broken(id)} : id \in QuestionIds}

\* str values that occur in correct answers
sMatchAB == <<"a", "|", ",", ",", "|", " ", "b">>
sMatchCD == <<"c", "|", ",", ",", "|", " ", "d">>
sSortXY == <<"x", ",", " ", "y">>
sSortP == <<"p", ",", " ">>
sNoSpace == <<"q", ",", "r">>
sZ == <<"z">>
sFoo == <<"f", "o", "o">>
sBar == <<"b", "a", "r">>

\* The values of "choices" and of "correct_answers" in the question bank,
\* each with a name.
ChoicesBank ==
    {<<"none", JMissing>>, <<"empty", JList(<<>>)>>, <<"AB", JList(<<sA, sB>>)>>}

CorrectBank ==
    {<<"none", JMissing>>,
     <<"null", JNull>>,
     <<"empty", JList(<<>>)>>,
     <<"B", JList(<<sB>>)>>,
     <<"match", JList(<<sMatchAB, sMatchCD>>)>>,
     <<"sort", JList(<<sSortXY, sZ>>)>>,
     <<"edges", JList(<<sSortP, sNoSpace>>)>>,
     <<"blanks", JMap(<< <<<<"2">>, sFoo>>, <<<<"1">>, sBar>> >>)>>,
     <<"blanks10", JMap(<< <<<<"1", "0">>, sA>>, <<<<"2">>, sB>> >>)>>}

BankTypes == KnownTypes \cup {"tf", NoType}

\* A question object of the bank; its text names what it holds.
BankQuestion(id, type, hca, c, a) ==
    Question(id, <<type, hca, c[1], a[1]>>, type, hca, c[2], a[2])

\* The question bank for question id 1: every type with every value of
\* has_correct_answer; the choices vary where has_correct_answer is false,
\* the correct answers where it is not.
Bank ==
    {BankQuestion(1, type, "false", c, a) :
        type \in BankTypes, c \in ChoicesBank,
        a \in {x \in CorrectBank : x[1] \in {"none", "sort"}}}
    \cup {BankQuestion(1, type, hca, c, a) :
        type \in BankTypes, hca \in {"true", "null"},
        c \in {x \in ChoicesBank : x[1] = "AB"}, a \in CorrectBank}
    \cup {BankQuestion(1, "mc", "missing", c, a) :
        c \in {x \in ChoicesBank : x[1] = "AB"},
        a \in {x \in CorrectBank : x[1] = "B"}}

\* The questions that follow a bank question in a response.
Followers ==
    {BankQuestion(2, "mc", "true", <<"AB", JList(<<sA, sB>>)>>, <<"B", JList(<<sB>>)>>),
     BankQuestion(1, "mc", "true", <<"AB", JList(<<sA, sB>>)>>, <<"B", JList(<<sB>>)>>)}

BankOutcomes ==
    {[ok |-> "none", body |-> <<q>>] : q \in Bank}
        \cup {[ok |-> "none", body |-> <<q, f>>] : q \in Bank, f \in Followers}

\* All sequences over S of length at most n.
RECURSIVE SeqsUpTo(_, _)
SeqsUpTo(S, n) ==
    IF n = 0 THEN {<<>>}
    ELSE LET shorter == SeqsUpTo(S, n - 1)
         IN  shorter \cup {Append(r, x) : r \in shorter, x \in S}

\* What a GET of the question-data endpoint can bring: a transport error, a
\* body that is not JSON, or a list of question objects.
NetError == [ok |-> "ConnectionError", body |-> <<>>]
NotJson == [ok |-> "JSONDecodeError", body |-> <<>>]
Responses == {[ok |-> "none", body |-> r] : r \in SeqsUpTo(QuestionObjects, MaxResp)}
QuestionDataOutcomes == {NetError, NotJson} \cup Responses

\* Chapter display names
nChapter3Intro ==
    <<"C","h","a","p","t","e","r"," ","3",":"," ","I","n","t","r","o">>
nChapter3Optional ==
    <<"C","h","a","p","t","e","r"," ","3"," ","O","P","T","I","O","N","A","L">>
nAppendix == <<"A","p","p","e","n","d","i","x">>
nChapter4 == <<"C","h","a","p","t","e","r"," ","4">>
nChapter30 == <<"C","h","a","p","t","e","r"," ","3","0">>
nChapters == <<"C","h","a","p","t","e","r","s">>
nLowerChapter3 == <<"c","h","a","p","t","e","r"," ","3">>

\* A chapter of the tree: {"display_name": name, "id": id}
Chapter(name, id) == [display_name |-> name, id |-> id]

\* The chapter lists of the course tree.
CourseTree ==
    <<Chapter(nChapter3Intro, 31), Chapter(nChapter3Optional, 32),
      Chapter(nChapter4, 34)>>

Trees == {CourseTree}

\* ------------------------------------------------------------------- state

VARIABLES
    phase,      \* "new" before __init__, "ready" after it, "failed" if it raised
    cookies,    \* self.session.cookies, a dict
    headers,    \* self.session.headers, a dict
    handshake,  \* every CSRF, login and chapter-tree request sent so far
    _chapters,  \* self._chapters, a dict of display name to id
    _questions, \* self._questions, a dict of question id to entry
    firstSeen,  \* history: the answer stored when each id first appeared
    lastOp,     \* the operation in progress or last finished, and its outcome
    pc,         \* "idle", or the position inside list_questions / run
    todo,       \* the chapters _load_chapters still has to load
    queue,      \* the question ids run still has to submit
    trace       \* the events of the operation in progress or last finished

vars == <<phase, cookies, headers, handshake, _chapters, _questions, firstSeen,
          lastOp, pc, todo, queue, trace>>

NoFilter == [none |-> TRUE, nums |-> <<>>]
Filter(nums) == [none |-> FALSE, nums |-> nums]

\* What a call returned when it returned None.
NoneRet == "<None>"

\* The default of run's delay, 0.3, in tenths.
DefaultDelay == 3

\* An operation and its outcome: the call (op and its argument: chapter,
\* qid, or filter and delay), the exception it raised, what it returned, and
\* for a load the ids of the response, the warnings issued, the size of the
\* local dict when the loop ended and the number of question objects skipped.
NoOp ==
    [op |-> "none", chapter |-> 0, qid |-> 0, filter |-> NoFilter,
     delay |-> DefaultDelay, raised |-> "none", ret |-> NoneRet,
     ids |-> <<>>, warned |-> <<>>, derived |-> 0, skipped |-> 0]

\* An event of an operation: a request sent, or something displayed.
Event(ev, id, answer, body) ==
    [ev |-> ev, id |-> id, answer |-> answer, body |-> body]

Init ==
    /\ phase = "new"
    /\ cookies = <<>>
    /\ headers = <<>>
    /\ handshake = <<>>
    /\ _chapters = <<>>
    /\ _questions = <<>>
    /\ firstSeen = <<>>
    /\ lastOp = NoOp
    /\ pc = "idle"
    /\ todo = <<>>
    /\ queue = <<>>
    /\ trace = <<>>

\* ---------------------------------------------------------------- handshake

COURSE_ID == 250265

UserAgent == <<"Mozilla/5.0">>

\* A handshake request as sent: the endpoint and the session headers then.
Request(endpoint, hdrs, params) ==
    [endpoint |-> endpoint, headers |-> hdrs, params |-> params]

\* {chapter["display_name"]: chapter["id"] for chapter in chapters}
RECURSIVE ChapterDict(_, _)
ChapterDict(list, d) ==
    IF list = <<>> THEN d
    ELSE ChapterDict(Tail(list), Put(d, Head(list).display_name, Head(list).id))

\* What the three handshake requests can bring ("nocookie -O": no cookie,
\* and Python run with its assertions off).
CsrfOutcomes == {"cookie", "nocookie", "nocookie -O", "ConnectionError"}
LoginOutcomes == {"token", "noheader", "ConnectionError"}
TreeOutcomes ==
    {[ok |-> "none", children |-> t] : t \in Trees}
        \cup {[ok |-> "ConnectionError", children |-> <<>>],
              [ok |-> "JSONDecodeError", children |-> <<>>]}

\* The CSRF token the platform sets and the JWT it issues.
CsrfToken == <<"c1">>
Jwt == "j1"

\* f"Bearer {jwt}"
Bearer(jwt) == <<"Bearer ", jwt>>

\* The CSRF step without its assertion: a missing cookie goes unnoticed.
_csrf_token_unchecked(st, csrf) ==
    LET sent == [st EXCEPT !.log = Append(@, Request("csrf", st.headers, <<>>))]
    IN  CASE csrf = "ConnectionError" -> [sent EXCEPT !.raised = csrf]
          [] csrf \in {"nocookie", "nocookie -O"} -> sent
          [] OTHER ->
               [sent EXCEPT !.cookies = Put(@, "csrftoken", CsrfToken),
                            !.headers = Put(@, "x-csrftoken", CsrfToken)]

\* The login step sent before the CSRF header is attached: it attaches the
\* header itself, after the POST.
_login_early(st, login) ==
    IF st.raised # "none" THEN st
    ELSE LET bare == [i \in 1..1 |-> st.headers[i]]
             sent == [st EXCEPT !.log = Append(@, Request("login", bare, <<>>))]
         IN  CASE login = "ConnectionError" -> [sent EXCEPT !.raised = login]
               [] login = "noheader" -> [sent EXCEPT !.raised = "KeyError"]
               [] OTHER ->
                    [sent EXCEPT !.headers = Put(@, "authorization", Bearer(Jwt))]

\* The steps of __init__, each given the state the previous one left:
\* [raised, cookies, headers, log].  A step after a raise does nothing.
_csrf_token(st, csrf) ==
    \* self.session.headers["x-csrftoken"] = self._csrf_token
    IF Has(st.cookies, "csrftoken")
    THEN [st EXCEPT !.headers = Put(@, "x-csrftoken", Get(st.cookies, "csrftoken"))]
    ELSE LET sent == [st EXCEPT !.log = Append(@, Request("csrf", st.headers, <<>>))]
         IN  CASE csrf = "ConnectionError" -> [sent EXCEPT !.raised = csrf]
               [] csrf = "nocookie" -> [sent EXCEPT !.raised = "AssertionError"]
               \* return self.session.cookies["csrftoken"]
               [] csrf = "nocookie -O" -> [sent EXCEPT !.raised = "KeyError"]
               [] OTHER ->
                    [sent EXCEPT !.cookies = Put(@, "csrftoken", CsrfToken),
                                 !.headers = Put(@, "x-csrftoken", CsrfToken)]

_login(st, login) ==
    \* self._jwt = self._login(); the authorization header
    IF st.raised # "none" THEN st
    ELSE LET sent == [st EXCEPT !.log = Append(@, Request("login", st.headers, <<>>))]
         IN  CASE login = "ConnectionError" -> [sent EXCEPT !.raised = login]
               [] login = "noheader" -> [sent EXCEPT !.raised = "KeyError"]
               [] OTHER ->
                    [sent EXCEPT !.headers = Put(@, "authorization", Bearer(Jwt))]

_get_chapters(st, tree) ==
    \* self._chapters = self._get_chapters()
    IF st.raised # "none" THEN st
    ELSE LET params == <<"unitree", COURSE_ID, 0>>
             sent == [st EXCEPT !.log = Append(@, Request("file_tree", st.headers, params))]
         IN  IF tree.ok # "none" THEN [sent EXCEPT !.raised = tree.ok] ELSE sent

\* The body of __init__ on a new Session, up to self._chapters.
Handshake(csrf, login, tree) ==
    LET st0 == [raised |-> "none", cookies |-> <<>>,
                headers |-> <<<<"user-agent", UserAgent>>>>,
                log |-> <<>>]
    IN  _get_chapters(_login(_csrf_token(st0, csrf), login), tree)

\* TopHatBot.__init__ (as Psych210Bot, whose COURSE_ID is set)
__init__(csrf, login, tree) ==
    /\ phase = "new"
    /\ LET st == Handshake(csrf, login, tree)
       IN  /\ phase' = IF st.raised = "none" THEN "ready" ELSE "failed"
           /\ cookies' = st.cookies
           /\ headers' = st.headers
           /\ handshake' = st.log
           /\ _chapters' = IF st.raised = "none"
                          THEN ChapterDict(tree.children, <<>>) ELSE <<>>
           /\ lastOp' = [NoOp EXCEPT !.op = "__init__", !.raised = st.raised]
    /\ UNCHANGED <<_questions, firstSeen, pc, todo, queue, trace>>

\* ------------------------------------------------- loading and answering

\* The outcomes of load_question_data on the accumulated mapping qs when the
\* GET brings net: [raised, data, warned].
LoadOutcomes(qs, net) ==
    IF net.ok # "none"
    THEN {[raised |-> net.ok, data |-> <<>>, warned |-> <<>>]}
    ELSE ProcessQuestions(qs, net.body, <<>>, <<>>)

\* History: firstSeen extended by the ids new in qs.
Remember(seen, qs) ==
    [id \in KeySet(qs) |->
        IF id \in DOMAIN seen THEN seen[id] ELSE Get(qs, id).answer]

\* The record of a load_question_data(c) call that ended with out.
LoadOp(qs, c, net, out) ==
    [NoOp EXCEPT !.op = "load_question_data", !.chapter = c,
                 !.raised = out.raised,
                 !.ids = [i \in 1..Len(net.body) |-> net.body[i].id],
                 !.warned = out.warned,
                 !.derived = Len(out.data),
                 !.skipped = Cardinality({i \in 1..Len(net.body) :
                                             Has(qs, net.body[i].id)})]

\* TopHatBot.load_question_data(chapter_id), called by the user.
load_question_data(c, net, out) ==
    /\ phase = "ready"
    /\ pc = "idle"
    /\ _questions' = Commit(_questions, out)
    /\ firstSeen' = Remember(firstSeen, _questions')
    /\ lastOp' = LoadOp(_questions, c, net, out)
    /\ trace' = <<Event("get_questions", c, JNull, "")>>
    /\ UNCHANGED <<phase, cookies, headers, handshake, _chapters, pc, todo, queue>>

\* What the POST of an answer can bring: a response body or a transport error.
AnswerOutcomes == {"ok", "ConnectionError"}

\* answer_question without its try/except: the KeyError propagates.
AnswerCallUnguarded(qs, id, net) ==
    IF ~Has(qs, id)
    THEN [raised |-> "KeyError", ret |-> NoneRet, events |-> <<>>]
    ELSE [raised |-> "none", ret |-> net,
          events |-> <<Event("post_answer", id, Get(qs, id).answer, ""),
                       Event("response", id, JNull, net)>>]

\* TopHatBot.answer_question(question_id) on the mapping qs:
\* [raised, ret, events]; the events are the message printed, or the POST
\* with the answer sent and the response received.
AnswerCall(qs, id, net) ==
    IF ~Has(qs, id)
    THEN [raised |-> "none", ret |-> NoneRet,
          events |-> <<Event("print_not_loaded", id, JNull, "")>>]
    ELSE LET post == Event("post_answer", id, Get(qs, id).answer, "")
         IN  IF net = "ConnectionError"
             THEN [raised |-> net, ret |-> NoneRet, events |-> <<post>>]
             ELSE [raised |-> "none", ret |-> net,
                   events |-> <<post, Event("response", id, JNull, net)>>]

\* answer_question, called by the user.  An id of 0 is one the platform
\* never serves.
answer_question(id, net) ==
    /\ phase = "ready"
    /\ pc = "idle"
    /\ LET r == AnswerCall(_questions, id, net)
       IN  /\ lastOp' = [NoOp EXCEPT !.op = "answer_question", !.qid = id,
                                     !.raised = r.raised, !.ret = r.ret]
           /\ trace' = r.events
    /\ UNCHANGED <<phase, cookies, headers, handshake, _chapters, _questions,
                   firstSeen, pc, todo, queue>>

\* ------------------------------------------------------------- Psych210Bot

sChapter == <<"C","h","a","p","t","e","r">>
sOPTIONAL == <<"O","P","T","I","O","N","A","L">>

\* Psych210Bot.required_chapters
required_chapters(chs) ==
    LET required(kv) == StartsWith(kv[1], sChapter) /\ ~Contains(kv[1], sOPTIONAL)
    IN  SelectSeq(chs, required)

\* f"Chapter {i}"
ChapterPrefix(i) == sChapter \o <<" ">> \o Str(i)

\* The prefixes without the fallback to the empty str.
valid_prefixes_no_fallback(filter) ==
    LET nums == IF filter.none THEN <<>> ELSE filter.nums
    IN  [i \in 1..Len(nums) |-> sChapter \o <<" ">> \o Str(nums[i])]

\* tuple(f"Chapter {i}" for i in chapters) or "": the prefixes, and the
\* empty str alone when there are none.
valid_prefixes(filter) ==
    LET nums == IF filter.none THEN <<>> ELSE filter.nums
        t == [i \in 1..Len(nums) |-> ChapterPrefix(nums[i])]
    IN  IF t = <<>> THEN << <<>> >> ELSE t

\* chapter.startswith(valid_prefixes)
StartsWithAny(s, prefixes) ==
    \E i \in 1..Len(prefixes) : StartsWith(s, prefixes[i])

\* The chapters the loop of _load_chapters loads, in order.
ChaptersToLoad(chs, filter) ==
    LET valid(kv) == StartsWithAny(kv[1], valid_prefixes(filter))
    IN  SelectSeq(required_chapters(chs), valid)

\* bool(x) of a stored has_correct_answer
Truthy(hca) == hca = "true"

\* The display of one question by list_questions and run.
ShowQuestion(id, entry) ==
    <<Event("show_question", id, JNull, ""),
      IF Truthy(entry.has_correct_answer)
      THEN Event("show_answer", id, entry.answer, "")
      ELSE Event("show_no_correct_answer", id, JNull, "")>>

\* The loop of list_questions over self.questions.items()
RECURSIVE ShowAll(_)
ShowAll(qs) ==
    IF qs = <<>> THEN <<>>
    ELSE ShowQuestion(Head(qs)[1], Head(qs)[2]) \o ShowAll(Tail(qs))

\* The questions visited by ascending id.
RECURSIVE Ascending(_)
Ascending(S) ==
    IF S = {} THEN <<>>
    ELSE LET m == CHOOSE x \in S : \A y \in S : x <= y
         IN  <<m>> \o Ascending(S \ {m})

RunOrderSorted(qs) == Ascending(KeySet(qs))

\* The order in which run visits the questions: self.questions.items()
RunOrder(qs) == Keys(qs)

\* What follows _load_chapters in operation op, with the mapping qs and the
\* events tr so far: list_questions displays and returns, run starts to
\* submit.
AfterLoading(op, qs, tr) ==
    IF op = "list_questions"
    THEN /\ pc' = "idle"
         /\ queue' = <<>>
         /\ trace' = tr \o ShowAll(qs)
    ELSE /\ pc' = IF qs = <<>> THEN "idle" ELSE "submit"
         /\ queue' = RunOrder(qs)
         /\ trace' = tr

\* The filters a caller passes as chapters=.
Filters == {NoFilter, Filter(<<3>>)}

\* The delays a caller passes to run, in tenths; time.sleep raises
\* ValueError for a negative one.
Delays == {-1, 0, DefaultDelay}

\* list_questions(chapters) or run(chapters, delay) is called: up to the
\* first request.
Start(op, filter, delay) ==
    /\ phase = "ready"
    /\ pc = "idle"
    /\ lastOp' = [NoOp EXCEPT !.op = op, !.filter = filter, !.delay = delay]
    /\ LET plan == ChaptersToLoad(_chapters, filter)
       IN  IF plan = <<>>
           THEN /\ todo' = <<>>
                /\ AfterLoading(op, _questions, <<>>)
           ELSE /\ todo' = plan
                /\ pc' = "load_chapters"
                /\ queue' = <<>>
                /\ trace' = <<>>
    /\ UNCHANGED <<phase, cookies, headers, handshake, _chapters, _questions,
                   firstSeen>>

\* Psych210Bot.list_questions(chapters)
list_questions(filter) == Start("list_questions", filter, DefaultDelay)

\* Psych210Bot.run(chapters, delay)
run(filter, delay) == Start("run", filter, delay)

\* One turn of the loop of _load_chapters: the next chapter is loaded.
_load_chapters(net, out) ==
    /\ pc = "load_chapters"
    /\ LET c == Head(todo)[2]
           tr == trace \o <<Event("print_loading", c, JNull, ""),
                            Event("get_questions", c, JNull, "")>>
       IN  /\ _questions' = Commit(_questions, out)
           /\ firstSeen' = Remember(firstSeen, _questions')
           /\ IF out.raised # "none"
              THEN /\ lastOp' = [lastOp EXCEPT !.raised = out.raised]
                   /\ pc' = "idle"
                   /\ todo' = <<>>
                   /\ queue' = <<>>
                   /\ trace' = tr
              ELSE /\ lastOp' = [lastOp EXCEPT
                                    !.warned = @ \o out.warned,
                                    !.skipped = @ + LoadOp(_questions, c, net, out).skipped]
                   /\ todo' = Tail(todo)
                   /\ IF Tail(todo) = <<>>
                      THEN AfterLoading(lastOp.op, _questions', tr)
                      ELSE /\ pc' = "load_chapters"
                           /\ queue' = <<>>
                           /\ trace' = tr
    /\ UNCHANGED <<phase, cookies, headers, handshake, _chapters>>

\* One turn of the loop of run: the next question is displayed and
\* submitted, the response displayed, and the delay slept.
Submit(net) ==
    /\ pc = "submit"
    /\ LET id == Head(queue)
           entry == Get(_questions, id)
           r == AnswerCall(_questions, id, net)
           shown == trace \o ShowQuestion(id, entry)
                          \o <<Event("show_submitting", id, entry.answer, "")>>
                          \o r.events
       IN  IF r.raised # "none"
           THEN /\ lastOp' = [lastOp EXCEPT !.raised = r.raised]
                /\ pc' = "idle"
                /\ queue' = <<>>
                /\ trace' = shown
           ELSE IF lastOp.delay < 0
           THEN /\ lastOp' = [lastOp EXCEPT !.raised = "ValueError"]
                /\ pc' = "idle"
                /\ queue' = <<>>
                /\ trace' = shown \o <<Event("show_response", id, JNull, r.ret)>>
           ELSE /\ lastOp' = lastOp
                /\ pc' = IF Tail(queue) = <<>> THEN "idle" ELSE "submit"
                /\ queue' = Tail(queue)
                /\ trace' = shown \o <<Event("show_response", id, JNull, r.ret),
                                       Event("sleep", id, JNull, "")>>
    /\ UNCHANGED <<phase, cookies, headers, handshake, _chapters, _questions,
                   firstSeen, todo>>

\* ------------------------------------------------------------ specification

ChapterIds == {_chapters[i][2] : i \in 1..Len(_chapters)}

Next ==
    \/ \E csrf \in CsrfOutcomes, login \in LoginOutcomes, tree \in TreeOutcomes :
            __init__(csrf, login, tree)
    \/ \E c \in ChapterIds, net \in QuestionDataOutcomes :
            \E out \in LoadOutcomes(_questions, net) : load_question_data(c, net, out)
    \/ \E id \in QuestionIds \cup {0}, net \in AnswerOutcomes : answer_question(id, net)
    \/ \E filter \in Filters : list_questions(filter)
    \/ \E filter \in Filters, delay \in Delays : run(filter, delay)
    \/ \E net \in QuestionDataOutcomes :
            \E out \in LoadOutcomes(_questions, net) : _load_chapters(net, out)
    \/ \E net \in AnswerOutcomes : Submit(net)

Spec == Init /\ [][Next]_vars

\* A client right after a successful __init__, for a tree of trees.
Constructed(trees) ==
    \E children \in trees :
        LET st == Handshake("cookie", "token", [ok |-> "none", children |-> children])
        IN  /\ phase = "ready"
            /\ cookies = st.cookies
            /\ headers = st.headers
            /\ handshake = st.log
            /\ _chapters = ChapterDict(children, <<>>)
            /\ _questions = <<>>
            /\ firstSeen = <<>>
            /\ lastOp = [NoOp EXCEPT !.op = "__init__"]
            /\ pc = "idle"
            /\ todo = <<>>
            /\ queue = <<>>
            /\ trace = <<>>

\* The loader on the whole question bank, for a course of one chapter.
InitDerive == Constructed({<<Chapter(nChapter4, 34)>>})

NextDerive ==
    \E c \in ChapterIds, net \in BankOutcomes :
        \E out \in LoadOutcomes(_questions, net) : load_question_data(c, net, out)

SpecDerive == InitDerive /\ [][NextDerive]_vars

\* The chapter filter on the tree bank; a chapter's questions are none, one,
\* or a transport error.
ChapterOutcomes ==
    {NetError, [ok |-> "none", body |-> <<>>], [ok |-> "none", body |-> <<QuizMc(1)>>]}

\* The chapter lists of the trees the filter is checked on.
TreeBank ==
    {<<Chapter(nChapter3Intro, 31), Chapter(nChapter3Optional, 32),
       Chapter(nAppendix, 33), Chapter(nChapter4, 34), Chapter(nChapter30, 35)>>,
     <<Chapter(nChapter3Intro, 31), Chapter(nChapter4, 34),
       Chapter(nChapter3Intro, 36)>>,
     <<Chapter(nChapters, 37), Chapter(nLowerChapter3, 38), Chapter(nAppendix, 33)>>,
     <<>>}

FilterBank ==
    {NoFilter, Filter(<<>>), Filter(<<3>>), Filter(<<4>>), Filter(<<3, 4>>),
     Filter(<<4, 3>>), Filter(<<9>>), Filter(<<30>>)}

InitChapters == Constructed(TreeBank)

NextChapters ==
    \/ \E filter \in FilterBank : list_questions(filter)
    \/ \E filter \in FilterBank, delay \in Delays : run(filter, delay)
    \/ \E net \in ChapterOutcomes :
            \E out \in LoadOutcomes(_questions, net) : _load_chapters(net, out)
    \/ \E net \in AnswerOutcomes : Submit(net)

SpecChapters == InitChapters /\ [][NextChapters]_vars

\* ------------------------------------------------------------------ claims

Endpoints(log) == [i \in 1..Len(log) |-> log[i].endpoint]

EventsOf(tr, ev) == SelectSeq(tr, LAMBDA e : e.ev = ev)

\* C3: the handshake is CSRF GET, login POST, chapter-tree GET, each once and
\* in this order; the login is sent with the CSRF token of the cookie as its
\* x-csrftoken header, the chapter-tree GET with the bearer token as its
\* authorization header; and in every state of a constructed client,
\* whatever was called since, the three requests are still the only
\* handshake requests and the two headers still hold these values.
C3_HandshakeOnceInOrder ==
    /\ Endpoints(handshake) \in
          {<<>>, <<"csrf">>, <<"csrf", "login">>, <<"csrf", "login", "file_tree">>}
    /\ \A i \in 1..Len(handshake) :
          LET req == handshake[i]
          IN  /\ req.endpoint = "csrf" => ~Has(req.headers, "x-csrftoken")
              /\ req.endpoint = "login" =>
                    /\ Has(req.headers, "x-csrftoken")
                    /\ Has(cookies, "csrftoken")
                    /\ Get(req.headers, "x-csrftoken") = Get(cookies, "csrftoken")
                    /\ ~Has(req.headers, "authorization")
              /\ req.endpoint = "file_tree" =>
                    /\ Has(req.headers, "authorization")
                    /\ Get(req.headers, "authorization") = Bearer(Jwt)
    /\ phase = "ready" =>
          /\ Endpoints(handshake) = <<"csrf", "login", "file_tree">>
          /\ Get(headers, "x-csrftoken") = Get(cookies, "csrftoken")
          /\ Get(headers, "authorization") = Bearer(Jwt)
          /\ headers = handshake[3].headers

\* C3 witness: a run has loaded chapters and submitted answers on a
\* constructed client.
C3_Witness ==
    /\ phase = "ready"
    /\ pc = "idle"
    /\ lastOp.op = "run"
    /\ lastOp.raised = "none"
    /\ EventsOf(trace, "get_questions") # <<>>
    /\ EventsOf(trace, "post_answer") # <<>>

\* C4: when the CSRF cookie is missing after the bootstrap request no login
\* is sent, when the login brings no token no chapter tree is fetched, and
\* in both cases __init__ raises: the client never becomes ready, and
\* nothing is loaded or answered on it.
C4_SetupErrorsAbort ==
    /\ (phase # "new" /\ ~Has(cookies, "csrftoken")) =>
          /\ phase = "failed"
          /\ Endpoints(handshake) = <<"csrf">>
    /\ (phase # "new" /\ Has(cookies, "csrftoken") /\ ~Has(headers, "authorization")) =>
          /\ phase = "failed"
          /\ Endpoints(handshake) = <<"csrf", "login">>
    /\ phase = "failed" =>
          /\ lastOp.op = "__init__"
          /\ lastOp.raised # "none"
          /\ _chapters = <<>>
          /\ _questions = <<>>
          /\ trace = <<>>
          /\ pc = "idle"
    /\ (lastOp.op = "__init__" /\ lastOp.raised # "none") => phase = "failed"

\* C4 witness: the bootstrap brought no cookie and the assertion failed.
C4_Witness ==
    /\ phase = "failed"
    /\ lastOp.raised = "AssertionError"
    /\ ~Has(cookies, "csrftoken")

\* The outcome of the answer_question call recorded in lastOp, on the
\* mapping as it is now.
AnswerOutcomeOk ==
    IF ~Has(_questions, lastOp.qid)
    THEN /\ lastOp.raised = "none"
         /\ lastOp.ret = NoneRet
         /\ EventsOf(trace, "post_answer") = <<>>
    ELSE /\ EventsOf(trace, "post_answer") =
               <<Event("post_answer", lastOp.qid, Get(_questions, lastOp.qid).answer, "")>>
         /\ lastOp.raised = "none" =>
               /\ EventsOf(trace, "response") # <<>>
               /\ lastOp.ret = EventsOf(trace, "response")[1].body

\* C5: every answer_question call leaves the mapping as it was; for an id
\* not in the mapping it raises nothing, returns None and sends no POST; for
\* an id in the mapping it sends one POST, with the stored answer, and
\* returns the body of the response.
C5_AnswerQuestion ==
    [][lastOp'.op = "answer_question" =>
          /\ _questions' = _questions
          /\ AnswerOutcomeOk']_vars

\* C5 witness: an id that was never loaded is answered on a client that has
\* loaded questions.
C5_Witness ==
    /\ lastOp.op = "answer_question"
    /\ _questions # <<>>
    /\ ~Has(_questions, lastOp.qid)
    /\ lastOp.ret = NoneRet

\* C1: no step changes or removes the entry of an id that is in the mapping
\* or moves it, the mapping never holds an id twice, and a load whose GET
\* brings the ids the load before it brought for the same chapter (the same
\* response above all) raises nothing and leaves the mapping as that load
\* left it.
C1_NoOverwrite ==
    [][/\ Len(_questions) <= Len(_questions')
       /\ \A i \in 1..Len(_questions) : _questions'[i] = _questions[i]
       /\ Cardinality(KeySet(_questions')) = Len(_questions')
       /\ (/\ lastOp.op = "load_question_data"
           /\ lastOp.raised = "none"
           /\ lastOp'.op = "load_question_data"
           /\ lastOp'.raised \notin {NetError.ok, NotJson.ok}
           /\ lastOp'.chapter = lastOp.chapter
           /\ lastOp'.ids = lastOp.ids)
          => /\ _questions' = _questions
             /\ lastOp'.raised = "none"]_vars

\* C1 witness: a load whose response lists two question objects, both of
\* ids already in the mapping.
C1_Witness ==
    /\ lastOp.op = "load_question_data"
    /\ lastOp.raised = "none"
    /\ Len(lastOp.ids) = 2
    /\ lastOp.skipped = 2
    /\ Len(_questions) = 2

IdsOf(tr, ev) == [i \in 1..Len(EventsOf(tr, ev)) |-> EventsOf(tr, ev)[i].id]

IsPrefix(a, b) == Len(a) <= Len(b) /\ a = SubSeq(b, 1, Len(a))

\* The submission events of the trace: POST, response displayed, sleep.
Submission(tr) ==
    SelectSeq(tr, LAMBDA e : e.ev \in {"post_answer", "show_response", "sleep"})

C10_LoadAllOrNothing ==
    [][/\ (lastOp'.op = "load_question_data" /\ lastOp'.raised # "none")
             => _questions' = _questions
       /\ (pc = "load_chapters" /\ lastOp'.raised # "none")
             => _questions' = _questions
       /\ (lastOp'.op = "load_question_data" /\ lastOp'.raised = "none")
             => KeySet(_questions') =
                    KeySet(_questions) \cup
                        {lastOp'.ids[i] : i \in 1..Len(lastOp'.ids)}]_vars

\* C10 witness: a load raised on a malformed question object after it had
\* derived the answer of an earlier one of the response, on a client that had
\* loaded a question before.
C10_Witness ==
    /\ lastOp.op = "load_question_data"
    /\ lastOp.raised = "IndexError"
    /\ lastOp.derived > 0
    /\ Len(_questions) = 1
    /\ lastOp.skipped = 0

\* The chapters a filter asks for, stated on the names: those that start
\* with "Chapter", do not contain "OPTIONAL" and, when numbers are given,
\* start with "Chapter " and one of the numbers.
Asked(chs, filter) ==
    LET asked(kv) ==
            /\ StartsWith(kv[1], sChapter)
            /\ ~Contains(kv[1], sOPTIONAL)
            /\ \/ filter.none
               \/ filter.nums = <<>>
               \/ \E i \in 1..Len(filter.nums) :
                     StartsWith(kv[1], sChapter \o <<" ">> \o Str(filter.nums[i]))
    IN  SelectSeq(chs, asked)

\* C7: "Chapter 3: Intro" is a required chapter, "Chapter 3 OPTIONAL" and
\* "Appendix" are not; list_questions and run load the chapters asked for,
\* in order and nothing else: all required ones without a filter, none (and
\* raising nothing) when no name matches.
C7_ChapterFilter ==
    /\ Has(_chapters, nChapter3Intro) => Has(required_chapters(_chapters), nChapter3Intro)
    /\ ~Has(required_chapters(_chapters), nChapter3Optional)
    /\ ~Has(required_chapters(_chapters), nAppendix)
    /\ required_chapters(_chapters) = Asked(_chapters, NoFilter)
    /\ lastOp.op \in {"list_questions", "run"} =>
          LET loads == IdsOf(trace, "get_questions")
              asked == [i \in 1..Len(Asked(_chapters, lastOp.filter)) |->
                           Asked(_chapters, lastOp.filter)[i][2]]
          IN  /\ IsPrefix(loads, asked)
              /\ loads \o [i \in 1..Len(todo) |-> todo[i][2]] = asked
                    \/ (pc = "idle" /\ lastOp.raised # "none")
              /\ (asked = <<>> /\ EventsOf(trace, "post_answer") = <<>>)
                    => (lastOp.raised = "none" /\ pc # "load_chapters")

\* C7 witness: with the filter 3, "Chapter 3: Intro" and "Chapter 30" were
\* loaded and "Chapter 3 OPTIONAL" and "Chapter 4" were not.
C7_Witness ==
    /\ lastOp.op = "list_questions"
    /\ lastOp.filter = Filter(<<3>>)
    /\ pc = "idle"
    /\ lastOp.raised = "none"
    /\ Has(_chapters, nChapter3Optional)
    /\ Has(_chapters, nChapter4)
    /\ IdsOf(trace, "get_questions") = <<31, 35>>

\* The question object of the bank that an entry was stored for.
Source(id, entry) ==
    CHOOSE q \in Bank \cup Followers : q.id = id /\ q.question = entry.question

Elements(x) == {x.v[i] : i \in 1..Len(x.v)}

\* C8: the stored answer of every question whose has_correct_answer is
\* false is a list of one element, which is one of its choices, whatever its
\* type and its correct answers.
C8_RandomChoice ==
    \A id \in KeySet(_questions) :
        LET entry == Get(_questions, id)
            src == Source(id, entry)
        IN  /\ entry.has_correct_answer = src.has_correct_answer
            /\ entry.type = src.type
            /\ src.has_correct_answer = "false" =>
                  /\ entry.answer.t = "list"
                  /\ Len(entry.answer.v) = 1
                  /\ src.choices.t = "list"
                  /\ entry.answer.v[1] \in Elements(src.choices)

\* C8 witness: questions of type match and of type fitbq without a correct
\* answer were loaded, the answer of one being the choice "A".
C8_Witness ==
    /\ Has(_questions, 1)
    /\ Get(_questions, 1).has_correct_answer = "false"
    /\ Get(_questions, 1).type = "fitbq"
    /\ Get(_questions, 1).answer = JList(<<sA>>)
    /\ Source(1, Get(_questions, 1)).correct_answers = JList(<<sSortXY, sZ>>)

\* The correct answers have the shape the rule of the type is stated for: a
\* list of str for match and sort, a mapping for fitbq, anything for mc and
\* for an unrecognized type.
RuleApplies(type, given) ==
    CASE type \in {"match", "sort"} -> given.t = "list"
      [] type = "fitbq" -> given.t = "map"
      [] type \in {"wa", "na", NoType} -> FALSE
      [] OTHER -> TRUE

\* The answer the rule of a type gives for the named correct answers of the
\* bank, worked out by hand.
RuleAnswer(type, name, given) ==
    CASE type = "match" /\ name = "match" ->
            JList(<< <<"a">>, <<"b">>, <<"c">>, <<"d">> >>)
      [] type = "match" /\ name \in {"empty", "B", "sort", "edges"} -> given
      [] type = "sort" /\ name = "sort" -> JList(<< <<"x">>, <<"y">>, <<"z">> >>)
      [] type = "sort" /\ name = "edges" -> JList(<< <<"p">>, <<>>, <<"q", ",", "r">> >>)
      [] type = "sort" /\ name \in {"empty", "B", "match"} -> given
      [] type = "fitbq" /\ name = "blanks" -> JList(<<sBar, sFoo>>)
      [] type = "fitbq" /\ name = "blanks10" -> JList(<<sA, sB>>)
      [] type \notin KnownTypes \cup {NoType} -> given
      [] type = "mc" -> given
      [] OTHER -> JMissing

\* C9: the stored answer of every question whose has_correct_answer is not
\* false is what the rule of its type gives: the parts split on "|,,| " for
\* match and on ", " for sort, the values by ascending key for fitbq, the
\* correct answers as they are for mc and for an unrecognized type; a load
\* that returns has stored every id of its response, and has warned once
\* for each question of an unrecognized type that it derived.
C9_TypeRules ==
    /\ \A id \in KeySet(_questions) :
          LET entry == Get(_questions, id)
              src == Source(id, entry)
          IN  (/\ src.has_correct_answer # "false"
               /\ RuleApplies(src.type, src.correct_answers)) =>
                  entry.answer = RuleAnswer(src.type, src.question[4], src.correct_answers)
    /\ (lastOp.op = "load_question_data" /\ lastOp.raised = "none") =>
          /\ \A i \in 1..Len(lastOp.ids) : Has(_questions, lastOp.ids[i])
          /\ \A i \in 1..Len(lastOp.warned) : lastOp.warned[i] \notin KnownTypes
          /\ (lastOp.skipped = 0 /\ lastOp.derived = Len(lastOp.ids)) =>
                LET unknown(id) ==
                        /\ Get(_questions, id).type \notin KnownTypes
                        /\ Get(_questions, id).has_correct_answer # "false"
                    warners == SelectSeq(lastOp.ids, unknown)
                IN  lastOp.warned =
                        [i \in 1..Len(warners) |-> Get(_questions, warners[i]).type]

\* C9 witness: a load derived a question of the unrecognized type "tf",
\* warned, stored its correct answers as they are, and went on to load the
\* question after it.
C9_Witness ==
    /\ lastOp.op = "load_question_data"
    /\ lastOp.raised = "none"
    /\ lastOp.ids = <<1, 2>>
    /\ lastOp.warned = <<"tf">>
    /\ Keys(_questions) = <<1, 2>>
    /\ Get(_questions, 1).type = "tf"
    /\ Get(_questions, 1).answer = JMap(<< <<<<"2">>, sFoo>>, <<<<"1">>, sBar>> >>)

====
